---------------------------- MODULE Spec2Model ----------------------------
(***************************************************************************)
(* A model of the two debug tools of the repository:                       *)
(*   tools/fake-daemon.py   a daemon that listens on a Unix stream socket, *)
(*                          answers the first message of a connection and  *)
(*                          pushes one canned "edit", then only reads;     *)
(*   tools/dummy-jsonrpc.py a generator that prints one Content-Length     *)
(*                          framed JSON-RPC message.                       *)
(* JSON values are tagged records, byte streams are sequences of symbols   *)
(* that carry their byte size, and the peers of the daemon are the         *)
(* environment.                                                            *)
(***************************************************************************)
EXTENDS Integers, Sequences, FiniteSets, TLC

VARIABLES
    pc,        \* where the daemon is: "accept" (line 38), "read_open" (line 40),
               \* "drain" (line 63), "crashed" (an uncaught exception ended it)
    exc,       \* the uncaught exception that ended the daemon, or "none"
    conn,      \* the connection accept returned last (0: none yet)
    backlog,   \* connections the peers made that accept has not returned yet
    peer,      \* per connection, the peer's end: "idle", "connected", "closed"
    peerSent,  \* per connection, the frames the peer has written, in order
    inbound,   \* per connection, the bytes the peer wrote that recv has not returned
    outbound,  \* per connection, the bytes the daemon wrote with conn.send
    received,  \* per connection, the values read_line returned ("Got JSON:" log)
    gen_pc,    \* dummy-jsonrpc.py: "start" or "printed"
    args,      \* dummy-jsonrpc.py: the parsed command line
    stdout     \* dummy-jsonrpc.py: the text written to standard output

daemonVars == <<pc, exc, conn, backlog, peer, peerSent, inbound, outbound, received>>
genVars == <<gen_pc, args, stdout>>
vars == <<pc, exc, conn, backlog, peer, peerSent, inbound, outbound, received,
          gen_pc, args, stdout>>

---------------------------------------------------------------------------
(* Bounds of the model.                                                    *)

\* Connections the peers may make in one run.
NumConns == 2
\* Frames the peers may write in one run, over all connections.
MaxPeerSends == 2
\* Characters of the file argument given to dummy-jsonrpc.py.
MaxFileLen == 3

Conns == 1..NumConns

---------------------------------------------------------------------------
(* JSON values, as json.loads returns them and json.dumps takes them.      *)

Obj(f) == [type |-> "object", members |-> f]
Num(n) == [type |-> "number", num |-> n]
Str(s) == [type |-> "string", str |-> s]
Arr(q) == [type |-> "array", items |-> q]

\* Python's v[k] for a string key k: the value, KeyError for a dict without
\* the key, TypeError for a value that is no dict.
Subscript(v, k) ==
    IF v.type = "object"
    THEN IF k \in DOMAIN v.members
         THEN [exc |-> "none", val |-> v.members[k]]
         ELSE [exc |-> "KeyError"]
    ELSE [exc |-> "TypeError"]

IsObject(m) == m.type = "object"
Has(m, k) == IsObject(m) /\ k \in DOMAIN m.members

\* The jsonrpc member every message of the two tools carries.
Version == Str("2.0")

---------------------------------------------------------------------------
(* The messages of dummy-jsonrpc.py and of fake-daemon.py.                 *)

\* The only delta of messages["edit"]: an insertion at the start.
edit_delta ==
    Arr(<<Obj([range |-> Obj([start |-> Obj([line |-> Num(0), character |-> Num(0)]),
                             end |-> Obj([line |-> Num(0), character |-> Num(0)])]),
               replacement |-> Str("hello, world")])>>)

\* messages[message_type] of dummy-jsonrpc.py for a given uri.
messages(message_type, uri) ==
    IF message_type = "open"
    THEN Obj([jsonrpc |-> Version, id |-> Num(1), method |-> Str("open"),
              params |-> Obj([uri |-> Str(uri)])])
    ELSE Obj([jsonrpc |-> Version, method |-> Str("edit"), id |-> Num(2),
              params |-> Obj([uri |-> Str(uri), revision |-> Num(0),
                              delta |-> edit_delta])])

\* A reply that carries the id of the "open" of dummy-jsonrpc.py whatever
\* the id of the message answered.
response_fixed_id(id) == Obj([jsonrpc |-> Version, id |-> Num(1), result |-> Str("success")])

\* The reply the daemon builds from the id of the first message.
response(id) == Obj([jsonrpc |-> Version, id |-> id, result |-> Str("success")])

\* The edit the daemon pushes, for the uri of the first message.
the_beautiful_edit(uri) ==
    Obj([jsonrpc |-> Version, method |-> Str("edit"),
         params |-> Obj([uri |-> uri, revision |-> Num(0),
                         delta |-> Arr(<<Obj([range |-> Obj([start |-> Obj([line |-> Num(0), character |-> Num(0)]),
                                                            end |-> Obj([line |-> Num(0), character |-> Num(1)])]),
                                              replacement |-> Str("AaA")])>>)])])

---------------------------------------------------------------------------
(* What the peers write.                                                   *)

Uri1 == "file:///tmp/a.txt"
Uri2 == "file:///tmp/b.txt"
X100 == "xxxxxxxxxxxxxxxxxxxxxxxxxxxxxxxxxxxxxxxxxxxxxxxxxxxxxxxxxxxxxxxxxxxxxxxxxxxxxxxxxxxxxxxxxxxxxxxxxxxx"
\* A uri of more than 1024 characters.
LongUri == "file:///tmp/" \o X100 \o X100 \o X100 \o X100 \o X100 \o X100
                          \o X100 \o X100 \o X100 \o X100 \o X100

\* A line that is no JSON text (a "Content-Length: 85" header, for one).
Invalid == [type |-> "invalid"]

\* An "edit" without id (a Notification), stating revision 1.
EditNotification(uri) ==
    Obj([jsonrpc |-> Version, method |-> Str("edit"),
         params |-> Obj([uri |-> Str(uri), revision |-> Num(1), delta |-> edit_delta])])

\* A Request of a method the protocol does not have.
UnknownMethodRequest(uri) ==
    Obj([jsonrpc |-> Version, id |-> Num(3), method |-> Str("close"),
         params |-> Obj([uri |-> Str(uri)])])

\* Well-formed JSON that is no valid request: no id, no params, params
\* without uri, a message that is no object.
NoParams == Obj([jsonrpc |-> Version, id |-> Num(4), method |-> Str("open")])
NoUri == Obj([jsonrpc |-> Version, id |-> Num(5), method |-> Str("open"),
              params |-> Obj([path |-> Str(Uri1)])])
NotObject == Num(7)

NoId == Obj([jsonrpc |-> Version, method |-> Str("open"),
             params |-> Obj([uri |-> Str(Uri1)])])

ValidMessages ==
    {messages("open", Uri1), messages("open", LongUri), messages("edit", Uri1),
     EditNotification(Uri2)}
FailValidation == {NoId, NoParams, NoUri, NotObject}
PeerMessages ==
    ValidMessages \cup FailValidation \cup {UnknownMethodRequest(Uri2)}
PeerFrames == PeerMessages \cup {Invalid}

---------------------------------------------------------------------------
(* The wire: json.dumps, json.loads, bytes.strip, bytes.split.             *)

\* Decimal digits of a natural number.
RECURSIVE Digits(_)
Digits(n) == IF n < 10 THEN 1 ELSE 1 + Digits(n \div 10)

\* Length of the text json.dumps makes of a value, with its default
\* separators ", " and ": " (the strings of the model need no escape).
RECURSIVE JsonLen(_)
JsonLen(v) ==
    CASE v.type = "number" -> Digits(v.num)
      [] v.type = "string" -> Len(v.str) + 2
      [] v.type = "array" ->
            LET RECURSIVE Sum(_)
                Sum(i) == IF i > Len(v.items) THEN 0
                          ELSE JsonLen(v.items[i]) + (IF i > 1 THEN 2 ELSE 0) + Sum(i + 1)
            IN 2 + Sum(1)
      [] v.type = "object" ->
            LET RECURSIVE Sum(_)
                Sum(K) == IF K = {} THEN 0
                          ELSE LET k == CHOOSE x \in K : TRUE
                               IN Len(k) + 2 + 2 + JsonLen(v.members[k])
                                  + (IF K # {k} THEN 2 ELSE 0) + Sum(K \ {k})
            IN 2 + Sum(DOMAIN v.members)

\* The symbols of a byte stream: the two halves of a JSON text, a newline,
\* and a line that is no JSON text. Each carries its size in bytes.
NL == [nl |-> TRUE, size |-> 1]
Junk == [junk |-> TRUE, size |-> 18]
IsNL(b) == "nl" \in DOMAIN b
IsText(b) == "of" \in DOMAIN b

\* json.dumps(v).encode("utf-8"): the text of v, as its two halves.
dumps(v) ==
    LET n == JsonLen(v)
    IN <<[of |-> v, part |-> 1, size |-> n \div 2],
         [of |-> v, part |-> 2, size |-> n - (n \div 2)]>>

\* json.loads(line): the value whose whole text the line is; any other
\* line (empty, a part of a text, no JSON) raises JSONDecodeError.
loads(line) ==
    IF /\ Len(line) = 2
       /\ IsText(line[1]) /\ IsText(line[2])
       /\ line[1].part = 1 /\ line[2].part = 2
       /\ line[1].of = line[2].of
    THEN [exc |-> "none", val |-> line[1].of]
    ELSE [exc |-> "JSONDecodeError"]

\* bytes.strip(): without the whitespace at its two ends.
RECURSIVE strip(_)
strip(bytes) ==
    IF bytes = <<>> THEN <<>>
    ELSE IF IsNL(Head(bytes)) THEN strip(Tail(bytes))
    ELSE IF IsNL(bytes[Len(bytes)]) THEN strip(SubSeq(bytes, 1, Len(bytes) - 1))
    ELSE bytes

\* bytes.split(b"\n")[0]: what comes before the first newline.
RECURSIVE first_line(_)
first_line(bytes) ==
    IF bytes = <<>> \/ IsNL(Head(bytes)) THEN <<>>
    ELSE <<Head(bytes)>> \o first_line(Tail(bytes))

RECURSIVE Size(_)
Size(bytes) == IF bytes = <<>> THEN 0 ELSE Head(bytes).size + Size(Tail(bytes))

\* The bufsize of conn.recv.
RecvBufSize == 1024

\* conn.recv(1024) on a stream: the numbers of symbols it may return. Some
\* nonempty prefix of what the peer wrote, of at most 1024 bytes; nothing
\* (end of file) once the peer has closed; it blocks otherwise.
recv(stream, closed) ==
    IF stream # <<>>
    THEN {k \in 1..Len(stream) : Size(SubSeq(stream, 1, k)) <= RecvBufSize}
    ELSE IF closed THEN {0} ELSE {}

\* read_line on the bytes recv returned.
read_line(bytes) == loads(first_line(strip(bytes)))

\* send(conn, json_): the bytes its two conn.send calls write.
send(json_) == dumps(json_) \o <<NL>>

\* The bytes a peer writes for one frame.
PeerBytes(frame) == (IF frame = Invalid THEN <<Junk>> ELSE dumps(frame)) \o <<NL>>

---------------------------------------------------------------------------
(* fake-daemon.py                                                          *)

Crash(e, out, got) == [pc |-> "crashed", exc |-> e, out |-> out, got |-> got]

\* Lines 40-61 on the bytes recv returned: the first message is read, the
\* response is built from its id and sent, the edit is built from its
\* params.uri and sent. An exception of any step ends the process with
\* what was written before it. conn.send to a peer that has closed raises
\* BrokenPipeError.
serve_open(bytes, closed) ==
    LET open == read_line(bytes)
    IN IF open.exc # "none" THEN Crash(open.exc, <<>>, <<>>)
       ELSE
       LET id == Subscript(open.val, "id")
       IN IF id.exc # "none" THEN Crash(id.exc, <<>>, <<open.val>>)
          ELSE IF closed THEN Crash("BrokenPipeError", <<>>, <<open.val>>)
          ELSE
          LET sent == send(response(id.val))
              params == Subscript(open.val, "params")
              uri == IF params.exc = "none" THEN Subscript(params.val, "uri") ELSE params
          IN IF uri.exc # "none" THEN Crash(uri.exc, sent, <<open.val>>)
             ELSE [pc |-> "drain", exc |-> "none",
                   out |-> sent \o send(the_beautiful_edit(uri.val)),
                   got |-> <<open.val>>]

\* A drain loop that answers every message that carries an id.
serve_drain_replies(bytes) ==
    LET line == read_line(bytes)
    IN IF line.exc # "none" THEN Crash(line.exc, <<>>, <<>>)
       ELSE [pc |-> "drain", exc |-> "none",
             out |-> IF Has(line.val, "id") THEN send(response(line.val.members.id)) ELSE <<>>,
             got |-> <<line.val>>]

\* Lines 62-63 on the bytes recv returned: the message is read and dropped.
serve_drain(bytes) ==
    LET line == read_line(bytes)
    IN IF line.exc # "none" THEN Crash(line.exc, <<>>, <<>>)
       ELSE [pc |-> "drain", exc |-> "none", out |-> <<>>, got |-> <<line.val>>]

\* An accept that also returns while the daemon is in the drain loop of a
\* connection, as a daemon with one task per connection would.
accept_while_serving ==
    /\ pc \in {"accept", "drain"}
    /\ backlog # <<>>
    /\ conn' = Head(backlog)
    /\ backlog' = Tail(backlog)
    /\ pc' = "read_open"
    /\ UNCHANGED <<exc, peer, peerSent, inbound, outbound, received>>
    /\ UNCHANGED genVars

\* Lines 37-38: accept returns the oldest connection of the backlog.
Accept ==
    /\ pc = "accept"
    /\ backlog # <<>>
    /\ conn' = Head(backlog)
    /\ backlog' = Tail(backlog)
    /\ pc' = "read_open"
    /\ UNCHANGED <<exc, peer, peerSent, inbound, outbound, received>>
    /\ UNCHANGED genVars

\* One step of the daemon on its connection: recv returns k symbols and
\* the handler h runs on them.
Serve(k, h) ==
    /\ inbound' = [inbound EXCEPT ![conn] = SubSeq(@, k + 1, Len(@))]
    /\ pc' = h.pc
    /\ exc' = h.exc
    /\ outbound' = [outbound EXCEPT ![conn] = @ \o h.out]
    /\ received' = [received EXCEPT ![conn] = @ \o h.got]
    /\ UNCHANGED <<conn, backlog, peer, peerSent>>
    /\ UNCHANGED genVars

\* Lines 40-61.
HandleOpen ==
    /\ pc = "read_open"
    /\ \E k \in recv(inbound[conn], peer[conn] = "closed") :
          Serve(k, serve_open(SubSeq(inbound[conn], 1, k), peer[conn] = "closed"))

\* Lines 62-63, one iteration.
Drain ==
    /\ pc = "drain"
    /\ \E k \in recv(inbound[conn], peer[conn] = "closed") :
          Serve(k, serve_drain(SubSeq(inbound[conn], 1, k)))

---------------------------------------------------------------------------
(* The peers.                                                              *)

RECURSIVE SentTotal(_)
SentTotal(C) ==
    IF C = {} THEN 0
    ELSE LET c == CHOOSE x \in C : TRUE IN Len(peerSent[c]) + SentTotal(C \ {c})

\* A peer connects to socket_path while the daemon listens. Connections
\* are numbered in the order they are made.
PeerConnect(c) ==
    /\ pc # "crashed"
    /\ peer[c] = "idle"
    /\ \A d \in Conns : d < c => peer[d] # "idle"
    /\ peer' = [peer EXCEPT ![c] = "connected"]
    /\ backlog' = Append(backlog, c)
    /\ UNCHANGED <<pc, exc, conn, peerSent, inbound, outbound, received>>
    /\ UNCHANGED genVars

\* A peer writes one frame.
PeerSend(c, frame) ==
    /\ pc # "crashed"
    /\ peer[c] = "connected"
    /\ SentTotal(Conns) < MaxPeerSends
    /\ peerSent' = [peerSent EXCEPT ![c] = Append(@, frame)]
    /\ inbound' = [inbound EXCEPT ![c] = @ \o PeerBytes(frame)]
    /\ UNCHANGED <<pc, exc, conn, backlog, peer, outbound, received>>
    /\ UNCHANGED genVars

\* A peer closes its end (of no effect once the daemon's process has ended).
PeerClose(c) ==
    /\ pc # "crashed"
    /\ peer[c] = "connected"
    /\ peer' = [peer EXCEPT ![c] = "closed"]
    /\ UNCHANGED <<pc, exc, conn, backlog, peerSent, inbound, outbound, received>>
    /\ UNCHANGED genVars

---------------------------------------------------------------------------
(* dummy-jsonrpc.py                                                        *)

\* A text is a sequence of segments: [s |-> t] is the ASCII text t, and
\* [cp |-> n] the one character of code point n, which is not ASCII.
Lit(t) == [s |-> t]
IsLit(g) == "s" \in DOMAIN g

\* len(text): its number of characters.
RECURSIVE CharLen(_)
CharLen(text) ==
    IF text = <<>> THEN 0
    ELSE (IF IsLit(Head(text)) THEN Len(Head(text).s) ELSE 1) + CharLen(Tail(text))

\* Bytes of one character in UTF-8.
Utf8Len(cp) == IF cp < 128 THEN 1 ELSE IF cp < 2048 THEN 2 ELSE IF cp < 65536 THEN 3 ELSE 4

\* Bytes of a text once written to standard output (UTF-8).
RECURSIVE ByteLen(_)
ByteLen(text) ==
    IF text = <<>> THEN 0
    ELSE (IF IsLit(Head(text)) THEN Len(Head(text).s) ELSE Utf8Len(Head(text).cp))
         + ByteLen(Tail(text))

\* The characters a file argument is made of: a letter, the separator, a
\* double quote, and two characters that are not ASCII (e with acute, the
\* euro sign).
Slash == Lit("/")
Quote == Lit("\"")
FileChars == {Lit("a"), Slash, Quote, [cp |-> 233], [cp |-> 8364]}

\* The directory the script runs in.
Cwd == <<Lit("/work")>>

\* Path(file).resolve(), on a file system without symbolic links: the path
\* made absolute, without repeated or trailing separators.
RECURSIVE Collapse(_)
Collapse(path) ==
    IF Len(path) < 2 THEN path
    ELSE IF path[1] = Slash /\ path[2] = Slash THEN Collapse(Tail(path))
    ELSE <<Head(path)>> \o Collapse(Tail(path))
resolve(file) ==
    LET abs == IF file # <<>> /\ file[1] = Slash THEN file ELSE Cwd \o <<Slash>> \o file
        one == Collapse(abs)
    IN IF Len(one) > 1 /\ one[Len(one)] = Slash THEN SubSeq(one, 1, Len(one) - 1) ELSE one

\* Line 18.
uri_of(file) == <<Lit("file://")>> \o resolve(file)

\* json.dumps with ensure_ascii=False: a character that is not ASCII is
\* written as it is.
escape_raw(g) == IF g = Quote THEN Lit("\\\"") ELSE g

\* What json.dumps (ensure_ascii) writes for one character of a string.
escape(g) ==
    IF ~IsLit(g) THEN
        IF g.cp = 233 THEN Lit("\\u00e9") ELSE Lit("\\u20ac")
    ELSE IF g = Quote THEN Lit("\\\"")
    ELSE g

\* json.dumps(messages[message_type]): the text of the message, the
\* members in the order lines 20-47 give them.
message_json(message_type, uri) ==
    LET u == [i \in 1..Len(uri) |-> escape(uri[i])]
    IN IF message_type = "open"
       THEN <<Lit("{\"jsonrpc\": \"2.0\", \"id\": 1, \"method\": \"open\", \"params\": {\"uri\": \"")>>
            \o u \o <<Lit("\"}}")>>
       ELSE <<Lit("{\"jsonrpc\": \"2.0\", \"method\": \"edit\", \"id\": 2, \"params\": {\"uri\": \"")>>
            \o u
            \o <<Lit("\", \"revision\": 0, \"delta\": [{\"range\": {\"start\": {\"line\": 0, \"character\": 0}, \"end\": {\"line\": 0, \"character\": 0}}, \"replacement\": \"hello, world\"}]}}")>>

\* Line 53: print of the f-string, and the newline print ends with.
frame_text(text) ==
    <<Lit("Content-Length: "), Lit(ToString(CharLen(text))), Lit("\r\n\r\n")>>
    \o text \o <<Lit("\n")>>

\* Lines 17-53: the whole script.
Generate ==
    /\ gen_pc = "start"
    /\ stdout' = frame_text(message_json(args.message_type, uri_of(args.file)))
    /\ gen_pc' = "printed"
    /\ UNCHANGED args
    /\ UNCHANGED daemonVars

RECURSIVE Files(_)
Files(n) ==
    IF n = 0 THEN {<<>>}
    ELSE Files(n - 1) \cup {Append(f, g) : f \in {x \in Files(n - 1) : Len(x) = n - 1}, g \in FileChars}

---------------------------------------------------------------------------
DaemonInit ==
    /\ pc = "accept"
    /\ exc = "none"
    /\ conn = 0
    /\ backlog = <<>>
    /\ peer = [c \in Conns |-> "idle"]
    /\ peerSent = [c \in Conns |-> <<>>]
    /\ inbound = [c \in Conns |-> <<>>]
    /\ outbound = [c \in Conns |-> <<>>]
    /\ received = [c \in Conns |-> <<>>]

GenIdle ==
    /\ gen_pc = "start"
    /\ args = [message_type |-> "open", file |-> <<>>]
    /\ stdout = <<>>

Init == DaemonInit /\ GenIdle

Next ==
    \/ Accept
    \/ HandleOpen
    \/ Drain
    \/ \E c \in Conns : PeerConnect(c)
    \/ \E c \in Conns, frame \in PeerFrames : PeerSend(c, frame)
    \/ \E c \in Conns : PeerClose(c)

Spec == Init /\ [][Next]_vars

\* dummy-jsonrpc.py alone, run on every command line of the bounds.
GenInit ==
    /\ DaemonInit
    /\ gen_pc = "start"
    /\ args \in [message_type : {"open", "edit"}, file : Files(MaxFileLen)]
    /\ stdout = <<>>

GenNext == Generate

SpecGen == GenInit /\ [][GenNext]_vars

---------------------------------------------------------------------------
(* What a peer sees, and the shapes of messages.                           *)

\* The frames of a byte stream: the lines before each of its newlines.
RECURSIVE Lines(_)
Lines(bytes) ==
    IF \A i \in 1..Len(bytes) : ~IsNL(bytes[i]) THEN <<>>
    ELSE LET line == first_line(bytes)
         IN <<line>> \o Lines(SubSeq(bytes, Len(line) + 2, Len(bytes)))

\* The messages the daemon has written on a connection, as the peer
\* decodes them.
Written(c) ==
    LET lines == Lines(outbound[c])
    IN [i \in 1..Len(lines) |-> loads(lines[i]).val]

IsRequest(m) == Has(m, "id") /\ Has(m, "method")
IsNotification(m) == Has(m, "method") /\ ~Has(m, "id")
IsResponse(m) == Has(m, "id") /\ ~Has(m, "method") /\ (Has(m, "result") \/ Has(m, "error"))
IsSuccess(m) == IsResponse(m) /\ Has(m, "result") /\ m.members.result = Str("success")
IsError(m) == IsResponse(m) /\ Has(m, "error")
MethodOf(m) == m.members.method.str
IsEditNotification(m) == IsNotification(m) /\ MethodOf(m) = "edit"
IsEditRequest(m) == IsRequest(m) /\ MethodOf(m) = "edit"

\* The connections accept has returned.
Accepted == {c \in Conns : c = conn}

---------------------------------------------------------------------------
(* C1 *)

---------------------------------------------------------------------------
(* C2 *)

---------------------------------------------------------------------------
(* C3 *)

\* C3: once the daemon is back in its read, every "edit" Request it has
\* read on the connection has been answered by a Response of the same id
\* whose result is a revision number.
C3_EditRequestAnswered ==
    \A c \in Accepted :
        pc = "drain" =>
           \A j \in 1..Len(received[c]) :
              IsEditRequest(received[c][j]) =>
                 \E i \in 1..Len(Written(c)) :
                    /\ IsResponse(Written(c)[i])
                    /\ Written(c)[i].members.id = received[c][j].members.id
                    /\ Has(Written(c)[i], "result")
                    /\ Written(c)[i].members.result.type = "number"

---------------------------------------------------------------------------
(* C4 *)

\* C4: a message that is well-formed JSON and fails validation never ends
\* the daemon: the process is not ended by the KeyError or TypeError of
\* reading a member such a message lacks.
C4_ValidationFailureKeepsServing ==
    \A c \in Accepted :
        (Len(received[c]) >= 1 /\ received[c][Len(received[c])] \in FailValidation)
            => ~(pc = "crashed" /\ exc \in {"KeyError", "TypeError"})

---------------------------------------------------------------------------
(* C5 *)

\* C5: once the daemon is back in its read, every Request it has read whose
\* method is neither "open" nor "edit" has an error Response of its id and
\* no "success" Response of its id, and no edit was pushed for its uri.
C5_UnknownMethodRejected ==
    \A c \in Accepted :
        pc = "drain" =>
           \A j \in 1..Len(received[c]) :
              LET m == received[c][j]
                  W == Written(c)
              IN (IsRequest(m) /\ MethodOf(m) \notin {"open", "edit"}) =>
                    /\ \E i \in 1..Len(W) : IsError(W[i]) /\ W[i].members.id = m.members.id
                    /\ \A i \in 1..Len(W) : IsSuccess(W[i]) => W[i].members.id # m.members.id
                    /\ \A i \in 1..Len(W) :
                          IsEditNotification(W[i]) =>
                             W[i].members.params.members.uri # m.members.params.members.uri

---------------------------------------------------------------------------
(* C6 *)

IsPrefix(p, q) == Len(p) <= Len(q) /\ p = SubSeq(q, 1, Len(p))

\* C6: on a connection whose peer writes JSON messages only, the values
\* read_line has returned are the messages sent, in order and each once;
\* all of them once every byte has been read; and read_line raises only at
\* the end of the stream, never on a part of a frame.
C6_ReadLineReturnsEachMessageOnce ==
    \A c \in Accepted :
        (\A n \in 1..Len(peerSent[c]) : peerSent[c][n] \in PeerMessages) =>
            /\ IsPrefix(received[c], peerSent[c])
            /\ inbound[c] = <<>> => received[c] = peerSent[c]
            /\ exc = "JSONDecodeError" => (inbound[c] = <<>> /\ peer[c] = "closed")

---------------------------------------------------------------------------
(* C7 *)

\* C7: whenever the bytes send writes for a message m (its JSON text and a
\* newline) are what the stream holds next, the read_line that reads from
\* the stream returns m.
C7_RoundTrip ==
    [][\A c \in Accepted :
          ( /\ pc \in {"read_open", "drain"}
            /\ Len(inbound[c]) >= 3
            /\ IsText(inbound[c][1])
            /\ SubSeq(inbound[c], 1, 3) = send(inbound[c][1].of)
            /\ Len(inbound'[c]) < Len(inbound[c]) )
          => /\ Len(received'[c]) = Len(received[c]) + 1
             /\ received'[c][Len(received'[c])] = inbound[c][1].of]_vars

---------------------------------------------------------------------------
(* C8 *)

\* What standard output holds after its first three segments.
AfterHeader == SubSeq(stdout, 4, Len(stdout))

\* The output starts with a Content-Length header and a blank line.
HasHeader ==
    /\ Len(stdout) >= 4
    /\ stdout[1] = Lit("Content-Length: ")
    /\ stdout[3] = Lit("\r\n\r\n")

\* C8 (as amended): for both message types and every file, the output is a
\* Content-Length header declaring N, a blank line, the JSON text of the
\* message, of exactly N bytes, and after it the one newline print adds.
C8_DeclaredLengthIsBodyLength ==
    gen_pc = "printed" =>
        /\ HasHeader
        /\ LET body == SubSeq(AfterHeader, 1, Len(AfterHeader) - 1)
           IN /\ body = message_json(args.message_type, uri_of(args.file))
              /\ stdout[2] = Lit(ToString(ByteLen(body)))
              /\ AfterHeader[Len(AfterHeader)] = Lit("\n")

\* An "edit" was printed for a file whose name holds a character that is
\* not ASCII and a double quote.
C8_Witness ==
    /\ gen_pc = "printed"
    /\ args.message_type = "edit"
    /\ \E i, j \in 1..Len(args.file) : args.file[i] = [cp |-> 8364] /\ args.file[j] = Quote

\* C8 as stated: what follows the header is exactly the N bytes declared.
C8_NoByteOutsideHeaderAndBody ==
    gen_pc = "printed" =>
        /\ HasHeader
        /\ stdout[2] = Lit(ToString(ByteLen(AfterHeader)))

---------------------------------------------------------------------------
(* C9 *)

\* C9: the end of the peer's stream, or a frame that cannot be decoded,
\* does not end the daemon's process.
C9_ConnectionEndKeepsServerRunning ==
    \A c \in Accepted :
        ( \/ (peer[c] = "closed" /\ inbound[c] = <<>>)
          \/ \E n \in 1..Len(peerSent[c]) : peerSent[c][n] = Invalid )
        => ~(pc = "crashed" /\ exc = "JSONDecodeError")

---------------------------------------------------------------------------
(* C10 *)

\* C10, its repeated edit: once the daemon is back in its read, an "edit"
\* Request read a second time with the same uri and the same revision has
\* an error Response of its id.
C10_RepeatedEditRejected ==
    \A c \in Accepted :
        pc = "drain" =>
           \A j, k \in 1..Len(received[c]) :
              (j < k /\ IsEditRequest(received[c][j]) /\ received[c][k] = received[c][j]) =>
                 \E i \in 1..Len(Written(c)) :
                    IsError(Written(c)[i])
                    /\ Written(c)[i].members.id = received[c][k].members.id

---------------------------------------------------------------------------
(* C11 *)

\* The members of an "edit" or "open" message.
UriOf(m) == m.members.params.members.uri
StatedRevision(m) == m.members.params.members.revision.num
IsOpenRequest(m) == IsRequest(m) /\ MethodOf(m) = "open"

\* The edit batches of a connection the daemon has accepted for a uri
\* before it wrote its i-th message: the "edit" Requests it has read and
\* answered with "success".
AcceptedEdits(c, uri, i) ==
    {j \in 1..Len(received[c]) :
        /\ IsEditRequest(received[c][j])
        /\ UriOf(received[c][j]) = uri
        /\ \E k \in 1..(i - 1) :
              IsSuccess(Written(c)[k])
              /\ Written(c)[k].members.id = received[c][j].members.id}

\* C11: the revision of a document is the number of edit batches accepted
\* for it: the revision the daemon states in an edit it pushes for a uri
\* is the number of edit batches it had accepted for that uri.
C11_RevisionCountsAcceptedEdits ==
    \A c \in Accepted :
        \A i \in 1..Len(Written(c)) :
            IsEditNotification(Written(c)[i]) =>
                StatedRevision(Written(c)[i])
                    = Cardinality(AcceptedEdits(c, UriOf(Written(c)[i]), i))

---------------------------------------------------------------------------
(* C12 *)

---------------------------------------------------------------------------
(* C13 *)

\* The text of a document that has just been opened: empty.
NewDocumentText == ""

\* A range lies within a text of one line: it is on line 0, its start is
\* not after its end, and its end is not after the end of the text.
InBounds(range, text) ==
    LET start == range.members.start.members
        end == range.members.end.members
    IN /\ start.line.num = 0 /\ end.line.num = 0
       /\ start.character.num <= end.character.num
       /\ end.character.num <= Len(text)

\* The deltas of an "edit" message.
DeltasOf(m) == m.members.params.members.delta.items

\* C13, for the edit the daemon pushes right after an open: every delta of
\* it has a range within the text of the document just opened.
C13_PushedEditInBounds ==
    \A c \in Accepted :
        (Len(received[c]) >= 1 /\ IsOpenRequest(received[c][1])) =>
            \A i \in 1..Len(Written(c)) :
                IsEditNotification(Written(c)[i]) =>
                    \A d \in 1..Len(DeltasOf(Written(c)[i])) :
                        InBounds(DeltasOf(Written(c)[i])[d].members.range, NewDocumentText)

---------------------------------------------------------------------------
(* C14 *)

\* The connections accept has not returned: not made yet, or in the backlog.
Waiting(c) == peer[c] = "idle" \/ \E n \in 1..Len(backlog) : backlog[n] = c

\* The daemon reads from connection c or writes to it in this step.
Touches(c) ==
    \/ outbound'[c] # outbound[c]
    \/ received'[c] # received[c]
    \/ Len(inbound'[c]) < Len(inbound[c])

\* C14: connections are served one at a time. Every step in which the
\* daemon reads from a connection or writes to one does so on the one
\* connection accept returned last, so never on two; accept returns a
\* connection only while the daemon is in no connection's loop; and a
\* connection that waits to be accepted has been sent nothing and has had
\* nothing read from it.
C14_OneConnectionAtATime ==
    [][ /\ \A c \in Conns : Touches(c) => (c = conn /\ conn' = conn /\ pc \in {"read_open", "drain"})
        /\ conn' # conn => pc = "accept"
        /\ \A c \in Conns : Waiting(c)' => (outbound'[c] = <<>> /\ received'[c] = <<>>) ]_vars

\* A second peer has connected and written while the first is served: it
\* waits, and nothing has been written to it.
C14_Witness ==
    /\ pc = "drain"
    /\ conn = 1
    /\ outbound[1] # <<>>
    /\ Waiting(2) /\ peer[2] = "connected"
    /\ inbound[2] # <<>>
    /\ outbound[2] = <<>>

---------------------------------------------------------------------------
(* C15 *)

\* The part of C15 that holds whatever the first message is: an edit the
\* daemon has pushed carries no id, states revision 0, and names the uri
\* of params.uri of the first message read on its connection.
PushedEditEchoesFirstMessage ==
    \A c \in Conns :
        \A i \in 1..Len(Written(c)) :
            IsEditNotification(Written(c)[i]) =>
                /\ ~Has(Written(c)[i], "id")
                /\ StatedRevision(Written(c)[i]) = 0
                /\ Len(received[c]) >= 1
                /\ UriOf(Written(c)[i]) = UriOf(received[c][1])

\* C15: an edit the daemon has pushed carries no id, states revision 0 and
\* names the uri of the first message read on its connection, and that uri
\* is one the peer has opened on the connection: an "open" Request for it
\* has been read.
C15_PushedEditForOpenedUri ==
    /\ PushedEditEchoesFirstMessage
    /\ \A c \in Conns :
          \A i \in 1..Len(Written(c)) :
              IsEditNotification(Written(c)[i]) =>
                  \E j \in 1..Len(received[c]) :
                      /\ IsOpenRequest(received[c][j])
                      /\ UriOf(received[c][j]) = UriOf(Written(c)[i])

=============================================================================
